---- MODULE Spec2Model ----
(***************************************************************************)
(* handel: the run of main (src/src/main.rs): loading of the template      *)
(* catalog with its port-conflict report (ComposeServiceMap::new,          *)
(* src/src/templates.rs), resolution of a scenario into a service list     *)
(* (HandelConfig::build_service_list, src/src/config.rs), generation of    *)
(* the compose manifest (DockerCompose::generate, src/src/compose.rs), and *)
(* the parsers of image strings, port ranges and port mappings.            *)
(*                                                                         *)
(* A Rust String is modelled as a sequence of one-character strings, so    *)
(* that parsing, rendering and comparing of strings are computed and not   *)
(* assumed.                                                                *)
(***************************************************************************)
EXTENDS Integers, Sequences, FiniteSets, TLC

VARIABLES
    templates,          \* ComposeServiceMap.templates: name -> ComposeService
    scenarios,          \* HandelConfig.scenarios: name -> ServiceList
    scenario,           \* the scenario name handed to build_service_list
    running,            \* &[RunningService] handed to generate
    local,              \* &[ContainerImage] handed to generate
    phase,              \* the position of main: "start" | "config" |
                        \* "resolved" | "ready" | "generated" | "done" |
                        \* "failed" (main returned Err) | "exited" (exit(1)) |
                        \* "aborted" (panic or stack overflow); "parse" and
                        \* "parsed" for a parser run on its own
    outcome,            \* of build_service_list: "none" (not called yet),
                        \* "ok", "err", or "overflow": the recursion ran
                        \* out of stack and the process was aborted
    required_services,  \* Ok(svcs_list): the names of the services, in order
    error,              \* Err(e): the chain of e, outermost first
    calls,              \* the calls of build_services_recursive, in order
    manifest,           \* DockerCompose.services: name -> fragment
    contents,           \* the text of the manifest: serde_yaml::to_string
    dir,                \* the template directory: file stem -> fragment
    port_range,         \* HandelConfig.port_range: Option<(u16,u16)>
    versions,           \* the result of RunningServices::load
    images,             \* the result of ContainerImages::find
    fragment_map,       \* the result of ComposeServiceMap::new
    volumes,            \* the result of Volumes::initialise
    conflicting_ports,  \* the conflicts reported on stderr: port -> names
    free_ports,         \* the free ports reported on stderr, if any
    written,            \* the contents of docker-compose.yml, if written
    arg,                \* the string handed to a parser
    parsed              \* what the parser returned

\* what resolution and generation work on
core_vars == <<templates, scenarios, scenario, running, local, outcome,
               required_services, error, calls, manifest>>

\* what the four joined tasks of main work on
join_vars == <<dir, port_range, versions, images, fragment_map, volumes,
               conflicting_ports, free_ports>>

\* what a parser run on its own works on
parse_vars == <<arg, parsed>>

vars == <<core_vars, join_vars, phase, written, contents, parse_vars>>

-----------------------------------------------------------------------------
(* Bounds *)

\* total number of list entries (depends_on entries and scenario members) of
\* a mixed catalog and scenario table
MaxEntries == 2

\* total number of depends_on entries of a template-only catalog
MaxDagEntries == 4

\* depth of recursion at which the call stack is taken to be exhausted. A
\* call that returns never holds a name twice on its stack, so it needs no
\* more frames than there are names (four); a call that goes deeper has
\* re-entered a name and recurs for ever.
MaxDepth == 6

\* length of the image string of a template
MaxImageLen == 5

\* number of entries of the reference feed
MaxRunning == 2

\* number of local images
MaxLocal == 1

\* total number of port mappings of the fragment files of a directory
MaxMappings == 4

\* length of a port-range string
MaxRangeLen == 7

\* digits of a since value before its point
MaxSinceWhole == 2

\* digits of a since value after its point
MaxSinceFract == 2

-----------------------------------------------------------------------------
(* Strings *)

\* the byte of a character (String::cmp compares bytes)
Code(c) ==
    CASE c = "/" -> 47
      [] c = "1" -> 49
      [] c = "2" -> 50
      [] c = "9" -> 57
      [] c = ":" -> 58
      [] c = "a" -> 97
      [] c = "b" -> 98
      [] c = "c" -> 99
      [] c = "s" -> 115

\* str::cmp: lexicographic on bytes; -1 less, 0 equal, 1 greater
RECURSIVE StrCmp(_, _)
StrCmp(x, y) ==
    IF x = <<>> THEN (IF y = <<>> THEN 0 ELSE -1)
    ELSE IF y = <<>> THEN 1
    ELSE IF Code(Head(x)) < Code(Head(y)) THEN -1
    ELSE IF Code(Head(x)) > Code(Head(y)) THEN 1
    ELSE StrCmp(Tail(x), Tail(y))

-----------------------------------------------------------------------------
(* Option<T> *)

None == [some |-> FALSE, val |-> <<>>]

Some(v) == [some |-> TRUE, val |-> v]

-----------------------------------------------------------------------------
(* Result<T, E>, and a future of tokio::join! that has not completed *)

Pending == [state |-> "pending", val |-> <<>>]

Ok(v) == [state |-> "ok", val |-> v]

\* Err(e): e is the chain of the error, outermost first
Err(e) == [state |-> "err", val |-> e]

-----------------------------------------------------------------------------
(* ImageVersion, src/src/templates.rs *)

\* the first index q > p with s[q] = "/", or 0: where the greedy [^/]+ that
\* starts at p must stop for the literal "/" to follow it
FirstSlashAfter(s, p) ==
    LET qs == {q \in (p + 1)..Len(s) : s[q] = "/"}
    IN  IF qs = {} THEN 0 ELSE CHOOSE q \in qs : \A r \in qs : q <= r

\* the last index of the longest run of characters other than ":" that
\* starts at k (s[k] is not ":"): the greedy [^:]+
SvcEnd(s, k) ==
    LET es == {e \in k..Len(s) : \A i \in k..e : s[i] # ":"}
    IN  CHOOSE e \in es : \A f \in es : f <= e

\* (?P<svc>[^:]+)(?::(?P<version>.+))? matched at k
SvcVersionAt(s, k, repo) ==
    LET e == SvcEnd(s, k)
    IN  [matched    |-> TRUE,
         repository |-> repo,
         name       |-> SubSeq(s, k, e),
         version    |-> IF e + 2 <= Len(s)
                        THEN Some(SubSeq(s, e + 2, Len(s)))
                        ELSE None]

NoMatch == [matched |-> FALSE, repository |-> None, name |-> <<>>, version |-> None]

\* the regex with a bug: the repository group is left out
MatchAtNoRepository(s, p) ==
    IF s[p] # ":" THEN SvcVersionAt(s, p, None) ELSE NoMatch

\* the regex of ImageVersion::new tried at position p: the optional group
\* (?:(?P<repo>[^/]+)/)? is taken when the rest then matches, else skipped
MatchAt(s, p) ==
    LET q == FirstSlashAfter(s, p)
    IN  IF s[p] # "/" /\ q # 0 /\ q + 1 <= Len(s) /\ s[q + 1] # ":"
        THEN SvcVersionAt(s, q + 1, Some(SubSeq(s, p, q - 1)))
        ELSE IF s[p] # ":"
        THEN SvcVersionAt(s, p, None)
        ELSE NoMatch

\* Regex::captures: an unanchored search, the leftmost position that matches
Captures(s) ==
    LET ps == {p \in 1..Len(s) : MatchAt(s, p).matched}
    IN  IF ps = {} THEN NoMatch
        ELSE MatchAt(s, CHOOSE p \in ps : \A r \in ps : p <= r)

\* ImageVersion::new: Ok(ImageVersion) or Err(RepositoryFormat); the svc group
\* is part of every match, so Err(ServiceName) is never returned
ImageVersionNew(image_str) ==
    LET c == Captures(image_str)
    IN  IF c.matched
        THEN [ok |-> TRUE, err |-> "",
              name |-> c.name, version |-> c.version, repository |-> c.repository]
        ELSE [ok |-> FALSE, err |-> "RepositoryFormat",
              name |-> <<>>, version |-> None, repository |-> None]

\* get with a bug: the repository is not rendered
ImageVersionGetNoRepository(iv) ==
    iv.name \o (IF iv.version.some THEN <<":">> \o iv.version.val ELSE <<>>)

\* ImageVersion::get
ImageVersionGet(iv) ==
    (IF iv.repository.some THEN iv.repository.val \o <<"/">> ELSE <<>>)
    \o iv.name
    \o (IF iv.version.some THEN <<":">> \o iv.version.val ELSE <<>>)

\* ImageVersion::get_without_version
GetWithoutVersion(iv) ==
    (IF iv.repository.some THEN iv.repository.val \o <<"/">> ELSE <<>>)
    \o iv.name

-----------------------------------------------------------------------------
(* ComposeServiceFragment and ComposeService, src/src/templates.rs *)

\* PortMapping (templates.rs 66-70)
PortMapping(source, target) == [source |-> source, target |-> target]

\* ComposeServiceFragment (templates.rs 129-146). depends_on is the list
\* (None and Some([]) give the same get_dependencies and are both the empty
\* sequence here); every other optional field is an Option
ComposeServiceFragment(image, platform, restart, depends_on, vols, environment, ports, deploy) ==
    [image |-> image, platform |-> platform, restart |-> restart,
     depends_on |-> depends_on, volumes |-> vols,
     environment |-> environment, ports |-> ports, deploy |-> deploy]

\* a fragment that has an image and a depends_on list and nothing else
Fragment(image, depends_on) ==
    ComposeServiceFragment(image, None, None, depends_on, None, None, None, None)

\* ComposeServiceFragment::get_version: ImageVersion::new(..).ok()
FragmentGetVersion(f) == ImageVersionNew(f.image)

\* ComposeServiceFragment::get_image_name
FragmentGetImageName(f) ==
    LET iv == ImageVersionNew(f.image)
    IN  IF iv.ok THEN Some(GetWithoutVersion(iv)) ELSE None

\* the ComposeService built by ComposeServiceMap::new for the file `stem`
NewService(stem, f) ==
    [name |-> stem, image |-> FragmentGetImageName(f).val, fragment |-> f]

\* ComposeService::get_dependencies
GetDependencies(svc) == svc.fragment.depends_on

\* ComposeServiceMap::get_service_fragment(..).is_some()
HasTemplate(name) == name \in DOMAIN templates

-----------------------------------------------------------------------------
(* HandelConfig::build_services_recursive, src/src/config.rs *)

\* the values of the error type that resolution builds (config.rs Error)
NotFound(input) == [kind |-> "NotFound", name |-> input]

ScenarioDeps(name) == [kind |-> "ScenarioDeps", name |-> name]

ServiceDeps(name) == [kind |-> "ServiceDeps", name |-> name]

\* one call of build_services_recursive: the name it is called for, the
\* place that calls it and the name that place was expanding
Call(name, from, parent) == [name |-> name, from |-> from, parent |-> parent]

\* The state threaded through the recursion is a record st:
\*   svcs    the keys of the HashMap svcs (the value of a key is its template)
\*   status  "ok" (Ok(())), "err" (Err(e)) or "overflow" (the stack ran out)
\*   err     the chain of e, outermost first
\*   calls   the calls made so far
RECURSIVE BuildServicesRecursive(_, _, _)
RECURSIVE DependencyLoop(_, _, _, _, _)
RECURSIVE ScenarioLoop(_, _, _, _, _)

\* DependencyLoop with a bug: a dependency is inserted but not expanded
RECURSIVE DependencyLoopShallow(_, _, _, _, _)
DependencyLoopShallow(parent, deps, i, st, depth) ==
    IF i > Len(deps) THEN st
    ELSE LET d == deps[i] IN
         IF d \notin st.svcs /\ HasTemplate(d)
         THEN DependencyLoopShallow(parent, deps, i + 1,
                                    [st EXCEPT !.svcs = @ \cup {d}], depth)
         ELSE DependencyLoopShallow(parent, deps, i + 1, st, depth)

\* DependencyLoop with a bug: every dependency that is not yet visited is
\* expanded, whether or not it is a template
RECURSIVE DependencyLoopAnyName(_, _, _, _, _)
DependencyLoopAnyName(parent, deps, i, st, depth) ==
    IF i > Len(deps) THEN st
    ELSE LET d == deps[i] IN
         IF d \notin st.svcs
         THEN LET r == BuildServicesRecursive(
                           d,
                           [st EXCEPT !.calls = Append(@, Call(d, "dep", parent))],
                           depth + 1)
              IN  CASE r.status = "ok" -> DependencyLoopAnyName(parent, deps, i + 1, r, depth)
                    [] r.status = "err" -> [r EXCEPT !.err = <<ServiceDeps(d)>> \o @]
                    [] OTHER -> r
         ELSE DependencyLoopAnyName(parent, deps, i + 1, st, depth)

\* for d in f.get_dependencies(), from the i-th entry on (config.rs 228-234)
DependencyLoop(parent, deps, i, st, depth) ==
    IF i > Len(deps) THEN st
    ELSE LET d == deps[i] IN
         IF d \notin st.svcs /\ HasTemplate(d)
         THEN LET r == BuildServicesRecursive(
                           d,
                           [st EXCEPT !.svcs = @ \cup {d},
                                      !.calls = Append(@, Call(d, "dep", parent))],
                           depth + 1)
              IN  CASE r.status = "ok" -> DependencyLoop(parent, deps, i + 1, r, depth)
                    [] r.status = "err" -> [r EXCEPT !.err = <<ServiceDeps(d)>> \o @]
                    [] OTHER -> r
         ELSE DependencyLoop(parent, deps, i + 1, st, depth)

\* for s in services, from the i-th member on (config.rs 238-247)
ScenarioLoop(parent, services, i, st, depth) ==
    IF i > Len(services) THEN st
    ELSE LET s == services[i] IN
         IF s \in st.svcs
         THEN ScenarioLoop(parent, services, i + 1, st, depth)
         ELSE LET r == BuildServicesRecursive(
                           s,
                           [st EXCEPT !.calls = Append(@, Call(s, "member", parent))],
                           depth + 1)
              IN  CASE r.status = "ok" -> ScenarioLoop(parent, services, i + 1, r, depth)
                    [] r.status = "err" -> [r EXCEPT !.err = <<ScenarioDeps(s)>> \o @]
                    [] OTHER -> r

\* build_services_recursive with a bug: a name that is neither a template nor
\* a scenario is passed over
BuildServicesRecursiveLenient(parent, st, depth) ==
    IF depth > MaxDepth
    THEN [st EXCEPT !.status = "overflow"]
    ELSE IF HasTemplate(parent)
    THEN DependencyLoop(parent, GetDependencies(templates[parent]), 1,
                        [st EXCEPT !.svcs = @ \cup {parent}], depth)
    ELSE IF parent \in DOMAIN scenarios
    THEN ScenarioLoop(parent, scenarios[parent], 1, st, depth)
    ELSE st

\* build_services_recursive with a bug: the scenario table is asked first
BuildServicesRecursiveScenarioFirst(parent, st, depth) ==
    IF depth > MaxDepth
    THEN [st EXCEPT !.status = "overflow"]
    ELSE IF parent \in DOMAIN scenarios
    THEN ScenarioLoop(parent, scenarios[parent], 1, st, depth)
    ELSE IF HasTemplate(parent)
    THEN DependencyLoop(parent, GetDependencies(templates[parent]), 1,
                        [st EXCEPT !.svcs = @ \cup {parent}], depth)
    ELSE [st EXCEPT !.status = "err", !.err = <<NotFound(parent)>>]

\* build_services_recursive(parent, svcs, templates) as the depth-th frame
BuildServicesRecursive(parent, st, depth) ==
    IF depth > MaxDepth
    THEN [st EXCEPT !.status = "overflow"]
    ELSE IF HasTemplate(parent)
    THEN DependencyLoop(parent, GetDependencies(templates[parent]), 1,
                        [st EXCEPT !.svcs = @ \cup {parent}], depth)
    ELSE IF parent \in DOMAIN scenarios
    THEN ScenarioLoop(parent, scenarios[parent], 1, st, depth)
    ELSE [st EXCEPT !.status = "err", !.err = <<NotFound(parent)>>]

-----------------------------------------------------------------------------
(* HandelConfig::build_service_list, src/src/config.rs *)

\* the orders in which `for (_, v) in svcs` can visit the entries of a HashMap
IterationOrders(keys) ==
    {o \in [1..Cardinality(keys) -> keys] :
        \A i, j \in 1..Cardinality(keys) : i # j => o[i] # o[j]}

\* Ord for ComposeService: the order of the names (templates.rs 155-159)
ServiceCmp(a, b) == StrCmp(templates[a].name, templates[b].name)

\* the place of x in a sorted list: behind every element that is not greater
RECURSIVE InsertSorted(_, _)
InsertSorted(x, sorted) ==
    IF sorted = <<>> THEN <<x>>
    ELSE IF ServiceCmp(x, Head(sorted)) < 0 THEN <<x>> \o sorted
    ELSE <<Head(sorted)>> \o InsertSorted(x, Tail(sorted))

\* sort() with a bug: the list is left in the order of the HashMap
SortServicesMissing(list) == list

\* svcs_list.sort(): a stable sort by Ord for ComposeService
RECURSIVE SortServices(_)
SortServices(list) ==
    IF list = <<>> THEN <<>>
    ELSE InsertSorted(list[Len(list)], SortServices(SubSeq(list, 1, Len(list) - 1)))

\* build_service_list with a bug: the error of the recursion is returned
\* without the context of the root scenario
ResolveRootNoContext(root) ==
    BuildServicesRecursive(
        root,
        [svcs |-> {}, status |-> "ok", err |-> <<>>,
         calls |-> <<Call(root, "root", root)>>],
        1)

\* the call of build_services_recursive and the context put on its error
\* (config.rs 200-205)
ResolveRoot(root) ==
    LET r == BuildServicesRecursive(
                 root,
                 [svcs |-> {}, status |-> "ok", err |-> <<>>,
                  calls |-> <<Call(root, "root", root)>>],
                 1)
    IN  IF r.status = "err" THEN [r EXCEPT !.err = <<ScenarioDeps(root)>> \o @] ELSE r

BuildServiceList ==
    /\ phase = "config"
    /\ LET r == ResolveRoot(scenario) IN
         /\ outcome' = r.status
         /\ error' = r.err
         /\ calls' = r.calls
         /\ IF r.status = "ok"
            THEN \E order \in IterationOrders(r.svcs) :
                     required_services' = SortServices(order)
            ELSE required_services' = <<>>
         /\ phase' = IF r.status = "overflow" THEN "aborted" ELSE "resolved"
    /\ UNCHANGED <<templates, scenarios, scenario, running, local, manifest>>
    /\ UNCHANGED <<join_vars, written, parse_vars, contents>>

-----------------------------------------------------------------------------
(* DockerCompose::generate, src/src/compose.rs *)

\* RunningService and its accessors name() and version() (reference.rs)
RunningService(name, version) == [name |-> name, version |-> version]

\* ContainerImage: the repository and the tag of its LocalContainerImage
ContainerImage(repository, tag) == [repository |-> repository, tag |-> tag]

\* ContainerImage::version (images.rs 80-82)
ImageTag(i) == i.tag

\* ContainerImage::repository, the key of container_lookup
ImageRepository(i) == i.repository

\* running.iter().fold(HashMap::new(), insert(s.name(), s)): a later entry
\* replaces an earlier one of the same name
RECURSIVE RunningSvcLookup(_)
RunningSvcLookup(rs) ==
    IF rs = <<>> THEN <<>>
    ELSE LET s == rs[Len(rs)]
         IN  (s.name :> s) @@ RunningSvcLookup(SubSeq(rs, 1, Len(rs) - 1))

\* local.iter().fold(HashMap::new(), insert(i.repository(), i))
RECURSIVE ContainerLookup(_)
ContainerLookup(ls) ==
    IF ls = <<>> THEN <<>>
    ELSE LET i == ls[Len(ls)]
         IN  (ImageRepository(i) :> i) @@ ContainerLookup(SubSeq(ls, 1, Len(ls) - 1))

\* HashMap::get
MapGet(map, key) == IF key \in DOMAIN map THEN Some(map[key]) ELSE None

\* the precedence chain with a bug: the reference feed is asked before the
\* local images
ResolveVersionRunningFirst(svc, image_version, container_lookup, running_svc_lookup) ==
    LET by_image   == MapGet(container_lookup, svc.image)
        by_service == MapGet(running_svc_lookup, svc.name)
        by_name    == MapGet(running_svc_lookup, image_version.name)
    IN  IF by_service.some THEN Some(by_service.val.version)
        ELSE IF by_name.some THEN Some(by_name.val.version)
        ELSE IF by_image.some THEN Some(ImageTag(by_image.val))
        ELSE image_version.version

\* the precedence chain with a bug: the image name is asked before the
\* service name
ResolveVersionNameFirst(svc, image_version, container_lookup, running_svc_lookup) ==
    LET by_image   == MapGet(container_lookup, svc.image)
        by_service == MapGet(running_svc_lookup, svc.name)
        by_name    == MapGet(running_svc_lookup, image_version.name)
    IN  IF by_image.some THEN Some(ImageTag(by_image.val))
        ELSE IF by_name.some THEN Some(by_name.val.version)
        ELSE IF by_service.some THEN Some(by_service.val.version)
        ELSE image_version.version

\* the precedence chain with a bug: the image name is not asked
ResolveVersionNoImageName(svc, image_version, container_lookup, running_svc_lookup) ==
    LET by_image   == MapGet(container_lookup, svc.image)
        by_service == MapGet(running_svc_lookup, svc.name)
    IN  IF by_image.some THEN Some(ImageTag(by_image.val))
        ELSE IF by_service.some THEN Some(by_service.val.version)
        ELSE image_version.version

\* the precedence chain of compose.rs 64-67
ResolveVersion(svc, image_version, container_lookup, running_svc_lookup) ==
    LET by_image   == MapGet(container_lookup, svc.image)
        by_service == MapGet(running_svc_lookup, svc.name)
        by_name    == MapGet(running_svc_lookup, image_version.name)
    IN  IF by_image.some THEN Some(ImageTag(by_image.val))
        ELSE IF by_service.some THEN Some(by_service.val.version)
        ELSE IF by_name.some THEN Some(by_name.val.version)
        ELSE image_version.version

\* fragment_using_version with a bug: the fragment is rebuilt from the
\* image and the dependencies, and the other fields are lost
FragmentUsingVersionRebuilt(svc, version) ==
    LET fragment == svc.fragment
        current  == FragmentGetVersion(fragment)
    IN  IF version.some /\ current.ok
        THEN Fragment(ImageVersionGet([current EXCEPT !.version = version]),
                      fragment.depends_on)
        ELSE fragment

\* ComposeService::fragment_using_version (templates.rs 227-255)
FragmentUsingVersion(svc, version) ==
    LET fragment == svc.fragment
        current  == FragmentGetVersion(fragment)
    IN  IF version.some /\ current.ok
        THEN [fragment EXCEPT !.image = ImageVersionGet([current EXCEPT !.version = version])]
        ELSE fragment

\* the fold with a bug: a service for which no version is found is left out
RECURSIVE VersionedOnlyWithVersion(_, _, _, _, _)
VersionedOnlyWithVersion(svcs, i, acc, container_lookup, running_svc_lookup) ==
    IF i > Len(svcs) THEN acc
    ELSE LET svc           == templates[svcs[i]]
             image_version == FragmentGetVersion(svc.fragment)
             version       == ResolveVersion(svc, image_version,
                                             container_lookup, running_svc_lookup)
         IN  IF ~image_version.ok \/ ~version.some
             THEN VersionedOnlyWithVersion(svcs, i + 1, acc,
                                           container_lookup, running_svc_lookup)
             ELSE VersionedOnlyWithVersion(svcs, i + 1,
                      (svc.name :> FragmentUsingVersion(svc, version)) @@ acc,
                      container_lookup, running_svc_lookup)

\* the fold of compose.rs 47-89 over svcs, from the i-th service on
RECURSIVE Versioned(_, _, _, _, _)
Versioned(svcs, i, acc, container_lookup, running_svc_lookup) ==
    IF i > Len(svcs) THEN acc
    ELSE LET svc           == templates[svcs[i]]
             image_version == FragmentGetVersion(svc.fragment)
         IN  IF ~image_version.ok
             THEN Versioned(svcs, i + 1, acc, container_lookup, running_svc_lookup)
             ELSE LET version == ResolveVersion(svc, image_version,
                                                container_lookup, running_svc_lookup)
                  IN  Versioned(svcs, i + 1,
                                (svc.name :> FragmentUsingVersion(svc, version)) @@ acc,
                                container_lookup, running_svc_lookup)

\* main.rs 124-138 with a bug: a failed source is propagated as with `?`
\* and ends the run
UnwrapOrElseFatal ==
    /\ phase = "resolved"
    /\ outcome = "ok"
    /\ IF versions.state = "ok" /\ images.state = "ok"
       THEN running' = versions.val /\ local' = images.val /\ phase' = "ready"
       ELSE UNCHANGED <<running, local>> /\ phase' = "failed"
    /\ UNCHANGED <<templates, scenarios, scenario, outcome, required_services,
                   error, calls, manifest>>
    /\ UNCHANGED <<join_vars, written, parse_vars, contents>>

\* main.rs 124-138: versions.unwrap_or_else(..) and images.unwrap_or_else(..)
\* after a successful build_service_list; a failed source gives Vec::new()
UnwrapOrElse ==
    /\ phase = "resolved"
    /\ outcome = "ok"
    /\ running' = IF versions.state = "ok" THEN versions.val ELSE <<>>
    /\ local' = IF images.state = "ok" THEN images.val ELSE <<>>
    /\ phase' = "ready"
    /\ UNCHANGED <<templates, scenarios, scenario, outcome, required_services,
                   error, calls, manifest>>
    /\ UNCHANGED <<join_vars, written, parse_vars, contents>>

\* serde_yaml::to_string(&compose) (compose.rs 97-102): the version, and the
\* entries of the HashMap `services` in the order in which its iterator
\* yields them
ToYamlString(services, order) ==
    [version  |-> <<"3">>,
     services |-> [i \in 1..Len(order) |->
                      [name |-> order[i], fragment |-> services[order[i]]]]]

\* DockerCompose::generate(&required_services, &running_svcs, &images)
Generate ==
    /\ phase = "ready"
    /\ \E versioned \in {Versioned(required_services, 1, <<>>,
                                   ContainerLookup(local), RunningSvcLookup(running))} :
       \E order \in IterationOrders(DOMAIN versioned) :
           /\ manifest' = versioned
           /\ contents' = ToYamlString(versioned, order)
    /\ phase' = "generated"
    /\ UNCHANGED <<templates, scenarios, scenario, running, local, outcome,
                   required_services, error, calls>>
    /\ UNCHANGED <<join_vars, written, parse_vars>>

-----------------------------------------------------------------------------
(* ComposeServiceMap::new, src/src/templates.rs *)

\* the values of TemplateError that loading builds
TemplateDirectoryNotReadable == [kind |-> "TemplateDirectoryNotReadable", name |-> <<>>]

\* the for_each with a bug: a port mapping without a source claims its
\* target
RECURSIVE AssignPortsByTarget(_, _, _)
AssignPortsByTarget(name, ports, acc) ==
    IF ports = <<>> THEN acc
    ELSE LET pm        == Head(ports)
             pm_source == IF pm.source.some THEN pm.source.val ELSE pm.target
             claimed   == IF pm_source \in DOMAIN acc.target_ports
                          THEN acc.target_ports[pm_source]
                          ELSE <<>>
         IN  AssignPortsByTarget(name, Tail(ports),
                 [acc EXCEPT
                     !.assigned_ports = @ \cup {pm_source},
                     !.target_ports = (pm_source :> Append(claimed, name)) @@ @])

\* p.iter().for_each(..) of templates.rs 323-333: every port mapping that
\* has a source claims it for the service `name`
RECURSIVE AssignPorts(_, _, _)
AssignPorts(name, ports, acc) ==
    IF ports = <<>> THEN acc
    ELSE LET pm == Head(ports) IN
         IF pm.source.some
         THEN LET pm_source == pm.source.val
                  claimed   == IF pm_source \in DOMAIN acc.target_ports
                               THEN acc.target_ports[pm_source]
                               ELSE <<>>
              IN  AssignPorts(name, Tail(ports),
                      [acc EXCEPT
                          !.assigned_ports = @ \cup {pm_source},
                          !.target_ports = (pm_source :> Append(claimed, name)) @@ @])
         ELSE AssignPorts(name, Tail(ports), acc)

\* for e in entries (templates.rs 268-336), from the i-th file on, in the
\* order in which read_dir yields the files. acc holds templates,
\* target_ports, assigned_ports and status: "ok", or "panic" when
\* get_image_name().unwrap() met None (templates.rs 319)
RECURSIVE LoadEntries(_, _, _, _)
LoadEntries(files, order, i, acc) ==
    IF i > Len(order) THEN acc
    ELSE LET stem             == order[i]
             service_fragment == files[stem]
         IN  IF ~FragmentGetImageName(service_fragment).some
             THEN [acc EXCEPT !.status = "panic"]
             ELSE LET service == NewService(stem, service_fragment)
                      ported  == IF service.fragment.ports.some
                                 THEN AssignPorts(service.name,
                                                  service.fragment.ports.val, acc)
                                 ELSE acc
                  IN  LoadEntries(files, order, i + 1,
                          [ported EXCEPT !.templates = (stem :> service) @@ @])

\* target_ports.iter().filter(|(_,v)| v.len()>1) (templates.rs 339-345): the
\* ports of the report and the names listed with each
ConflictingPorts(target_ports) ==
    LET ps == {p \in DOMAIN target_ports : Len(target_ports[p]) > 1}
    IN  [p \in ps |-> target_ports[p]]

\* RangeInclusive::new(r.0, r.1).filter(not assigned).take(n), from p on
\* (templates.rs 351-355)
RECURSIVE FreePorts(_, _, _, _)
FreePorts(p, high, assigned_ports, n) ==
    IF p > high \/ n = 0 THEN <<>>
    ELSE IF p \notin assigned_ports
    THEN <<p>> \o FreePorts(p + 1, high, assigned_ports, n - 1)
    ELSE FreePorts(p + 1, high, assigned_ports, n)

\* the state in which the loop over the directory entries starts
NoEntries ==
    [templates |-> <<>>, target_ports |-> <<>>, assigned_ports |-> {}, status |-> "ok"]

\* ComposeServiceMap::new(config.template_dir(), config.get_port_range()),
\* one of the futures of the join of main
ComposeServiceMapNew ==
    /\ phase = "start"
    /\ fragment_map.state = "pending"
    /\ IF ~dir.readable
       THEN /\ fragment_map' = Err(<<TemplateDirectoryNotReadable>>)
            /\ UNCHANGED <<templates, conflicting_ports, free_ports, phase>>
       ELSE \E order \in IterationOrders(DOMAIN dir.files) :
            \E r \in {LoadEntries(dir.files, order, 1, NoEntries)} :
            \E conflicts \in {ConflictingPorts(r.target_ports)} :
                    IF r.status = "panic"
                    THEN /\ phase' = "aborted"
                         /\ UNCHANGED <<templates, conflicting_ports,
                                        free_ports, fragment_map>>
                    ELSE /\ templates' = r.templates
                         /\ fragment_map' = Ok(<<>>)
                         /\ conflicting_ports' = conflicts
                         /\ free_ports' =
                                IF DOMAIN conflicts # {} /\ port_range.some
                                THEN Some(FreePorts(port_range.val[1], port_range.val[2],
                                                    r.assigned_ports,
                                                    Cardinality(DOMAIN conflicts)))
                                ELSE None
                         /\ UNCHANGED phase
    /\ UNCHANGED <<scenarios, scenario, running, local, outcome,
                   required_services, error, calls, manifest>>
    /\ UNCHANGED <<dir, port_range, versions, images, volumes, written, parse_vars, contents>>

-----------------------------------------------------------------------------
(* main, src/src/main.rs *)

\* the values of the error type of main
Fragments == [kind |-> "Fragments", name |-> <<>>]

WriteComposeFileError == [kind |-> "WriteComposeFile", name |-> <<>>]

\* what the reference feed can hold when main runs
Feeds == {<<>>, <<RunningService(<<"a">>, <<"2">>)>>}

\* what docker can hold when main runs
LocalImages == {<<>>, <<ContainerImage(<<"a">>, <<"9">>)>>}

\* the errors of the collaborators, which main only logs
FetchFailed == [kind |-> "HttpRequest", name |-> <<>>]

ImagesFailed == [kind |-> "ReadChildOutput", name |-> <<>>]

VolumesFailed == [kind |-> "ZipArchive", name |-> <<>>]

\* RunningServices::load(env, config.get_reference()): the feed, or an error
RunningServicesLoad ==
    /\ phase = "start"
    /\ versions.state = "pending"
    /\ versions' \in {Err(<<FetchFailed>>)} \cup {Ok(l) : l \in Feeds}
    /\ UNCHANGED <<core_vars, dir, port_range, images, fragment_map, volumes,
                   conflicting_ports, free_ports, phase, written, parse_vars, contents>>

\* ContainerImages::find(since): the local images, or an error
ContainerImagesFind ==
    /\ phase = "start"
    /\ images.state = "pending"
    /\ images' \in {Err(<<ImagesFailed>>)} \cup {Ok(l) : l \in LocalImages}
    /\ UNCHANGED <<core_vars, dir, port_range, versions, fragment_map, volumes,
                   conflicting_ports, free_ports, phase, written, parse_vars, contents>>

\* Volumes::initialise(config.volumes())
VolumesInitialise ==
    /\ phase = "start"
    /\ volumes.state = "pending"
    /\ volumes' \in {Err(<<VolumesFailed>>), Ok(<<>>)}
    /\ UNCHANGED <<core_vars, dir, port_range, versions, images, fragment_map,
                   conflicting_ports, free_ports, phase, written, parse_vars, contents>>

\* HandelConfig::has_scenario
HasScenario(name) == name \in DOMAIN scenarios

\* main.rs 107-118 with a bug: the scenario is not looked up in the
\* configuration before it is resolved
ExamineResultsAnyScenario ==
    /\ phase = "start"
    /\ versions.state # "pending"
    /\ images.state # "pending"
    /\ fragment_map.state # "pending"
    /\ volumes.state # "pending"
    /\ IF volumes.state = "err"
       THEN phase' = "exited" /\ UNCHANGED error
       ELSE IF fragment_map.state = "err"
       THEN phase' = "failed" /\ error' = <<Fragments>> \o fragment_map.val
       ELSE phase' = "config" /\ UNCHANGED error
    /\ UNCHANGED <<templates, scenarios, scenario, running, local, outcome,
                   required_services, calls, manifest>>
    /\ UNCHANGED <<join_vars, written, parse_vars, contents>>

\* main.rs 107-118, once tokio::join! has returned the four results:
\* volumes.unwrap_or_else(exit 1), fragment_map.context(Fragments)?, and the
\* exit when the scenario is not one of the configuration
ExamineResults ==
    /\ phase = "start"
    /\ versions.state # "pending"
    /\ images.state # "pending"
    /\ fragment_map.state # "pending"
    /\ volumes.state # "pending"
    /\ IF volumes.state = "err"
       THEN phase' = "exited" /\ UNCHANGED error
       ELSE IF fragment_map.state = "err"
       THEN phase' = "failed" /\ error' = <<Fragments>> \o fragment_map.val
       ELSE IF ~HasScenario(scenario)
       THEN phase' = "exited" /\ UNCHANGED error
       ELSE phase' = "config" /\ UNCHANGED error
    /\ UNCHANGED <<templates, scenarios, scenario, running, local, outcome,
                   required_services, calls, manifest>>
    /\ UNCHANGED <<join_vars, written, parse_vars, contents>>

\* what docker-compose.yml holds
NotWritten == [state |-> "none", services |-> <<>>]

Written(state, services) == [state |-> state, services |-> services]

\* utils::write_str_to_file(path, &contents).context(WriteComposeFile)
\* (main.rs 154-156, utils.rs 60-77): File::create may fail, and so may
\* write_all after the file was created and truncated
WriteComposeFile ==
    /\ phase = "generated"
    /\ \/ /\ written' = Written("full", contents)
          /\ phase' = "done"
          /\ UNCHANGED error
       \/ /\ written' \in {written, Written("partial", <<>>)}
          /\ phase' = "failed"
          /\ error' = <<WriteComposeFileError>>
    /\ UNCHANGED <<templates, scenarios, scenario, running, local, outcome,
                   required_services, calls, manifest>>
    /\ UNCHANGED <<join_vars, parse_vars, contents>>

-----------------------------------------------------------------------------
(* Decimal numbers: str::parse::<u16> and the digits of the regexes *)

Min(a, b) == IF a <= b THEN a ELSE b

Digits == <<"0", "1", "2", "3", "4", "5", "6", "7", "8", "9">>

\* \d
IsDigit(c) == \E d \in 1..10 : Digits[d] = c

DigitValue(c) == (CHOOSE d \in 1..10 : Digits[d] = c) - 1

\* the number that a string of digits denotes
RECURSIVE Decimal(_)
Decimal(s) ==
    IF s = <<>> THEN 0
    ELSE 10 * Decimal(SubSeq(s, 1, Len(s) - 1)) + DigitValue(s[Len(s)])

\* u16::MAX
U16Max == 65535

\* s.parse::<u16>() of a string of digits: Ok(n), or Err when n overflows
ParseU16(s) == IF Decimal(s) <= U16Max THEN Ok(Decimal(s)) ELSE Err(<<>>)

\* the last index of the run of digits that starts at p (s[p] is a digit),
\* of at most `most` digits: the greedy \d{..,most}
DigitsEnd(s, p, most) ==
    LET es == {e \in p..Min(Len(s), p + most - 1) : \A i \in p..e : IsDigit(s[i])}
    IN  CHOOSE e \in es : \A f \in es : f <= e

-----------------------------------------------------------------------------
(* de_port_range, src/src/config.rs *)

\* [1-9]
IsNonZeroDigit(c) == IsDigit(c) /\ c # "0"

\* (?P<p1>[1-9]\d{0,4})-(?P<p2>[1-9]\d{0,4}) tried at position p: p1 must
\* take its whole run of digits for the "-" to follow it
PortRangeMatchAt(s, p) ==
    IF ~IsNonZeroDigit(s[p]) THEN [matched |-> FALSE, p1 |-> <<>>, p2 |-> <<>>]
    ELSE LET e == DigitsEnd(s, p, 5)
         IN  IF e + 2 <= Len(s) /\ s[e + 1] = "-" /\ IsNonZeroDigit(s[e + 2])
             THEN [matched |-> TRUE,
                   p1 |-> SubSeq(s, p, e),
                   p2 |-> SubSeq(s, e + 2, DigitsEnd(s, e + 2, 5))]
             ELSE [matched |-> FALSE, p1 |-> <<>>, p2 |-> <<>>]

\* re.captures(&s): the leftmost position that matches
PortRangeCaptures(s) ==
    LET ps == {p \in 1..Len(s) : PortRangeMatchAt(s, p).matched}
    IN  IF ps = {} THEN [matched |-> FALSE, p1 |-> <<>>, p2 |-> <<>>]
        ELSE PortRangeMatchAt(s, CHOOSE p \in ps : \A r \in ps : p <= r)

\* de_port_range (config.rs 120-141): Ok(ports), or the panic of
\* parse::<u16>().unwrap() on a number above u16::MAX
DePortRange(s) ==
    LET c == PortRangeCaptures(s)
    IN  IF ~c.matched THEN [outcome |-> "ok", ports |-> None]
        ELSE LET p1 == ParseU16(c.p1)
                 p2 == ParseU16(c.p2)
             IN  IF p1.state = "err" \/ p2.state = "err"
                 THEN [outcome |-> "panic", ports |-> None]
                 ELSE IF p1.val > p2.val
                 THEN [outcome |-> "ok", ports |-> Some(<<p2.val, p1.val>>)]
                 ELSE [outcome |-> "ok", ports |-> Some(<<p1.val, p2.val>>)]

-----------------------------------------------------------------------------
(* Deserialize for PortMapping, src/src/templates.rs *)

\* (?P<a>\d{1,5})(?::(?P<b>\d{1,5}))? tried at position p
PortMappingMatchAt(s, p) ==
    IF ~IsDigit(s[p]) THEN [matched |-> FALSE, a |-> <<>>, b |-> None]
    ELSE LET e == DigitsEnd(s, p, 5)
         IN  [matched |-> TRUE,
              a |-> SubSeq(s, p, e),
              b |-> IF e + 2 <= Len(s) /\ s[e + 1] = ":" /\ IsDigit(s[e + 2])
                    THEN Some(SubSeq(s, e + 2, DigitsEnd(s, e + 2, 5)))
                    ELSE None]

\* r.captures(&s): the leftmost position that matches
PortMappingCaptures(s) ==
    LET ps == {p \in 1..Len(s) : IsDigit(s[p])}
    IN  IF ps = {} THEN [matched |-> FALSE, a |-> <<>>, b |-> None]
        ELSE PortMappingMatchAt(s, CHOOSE p \in ps : \A r \in ps : p <= r)

\* m.as_str().parse::<u16>().unwrap_or(0)
ParseU16OrZero(s) == IF ParseU16(s).state = "ok" THEN ParseU16(s).val ELSE 0

\* deserialize with a bug: the two ports of "N:M" change places
PortMappingDeserializeSwapped(s) ==
    LET captures == PortMappingCaptures(s)
    IN  IF ~captures.matched THEN Err(<<>>)
        ELSE LET port_a == ParseU16OrZero(captures.a)
             IN  IF captures.b.some
                 THEN Ok(PortMapping(Some(ParseU16OrZero(captures.b.val)), port_a))
                 ELSE Ok(PortMapping(None, port_a))

\* PortMapping::deserialize (templates.rs 80-114) of the string s
PortMappingDeserialize(s) ==
    LET captures == PortMappingCaptures(s)
    IN  IF ~captures.matched THEN Err(<<>>)
        ELSE LET port_a == ParseU16OrZero(captures.a)
             IN  IF captures.b.some
                 THEN Ok(PortMapping(Some(port_a), ParseU16OrZero(captures.b.val)))
                 ELSE Ok(PortMapping(None, port_a))

\* format!("{}", n) of an unsigned number
RECURSIVE DecimalString(_)
DecimalString(n) ==
    IF n < 10 THEN <<Digits[n + 1]>>
    ELSE DecimalString(n \div 10) \o <<Digits[(n % 10) + 1]>>

-----------------------------------------------------------------------------
(* parse_since_string, src/src/images.rs *)

\* the number of digits of s from position p on, at most `most`: the greedy
\* \d{0,most}
DigitsCount(s, p, most) ==
    LET ns == {n \in 0..Min(most, Len(s) - p + 1) : \A i \in p..(p + n - 1) : IsDigit(s[i])}
    IN  CHOOSE n \in ns : \A m \in ns : m <= n

\* s|m|h|d|w
SinceUnits == {"s", "m", "h", "d", "w"}

\* (?P<value>\d{0,10}(?:\.\d{0,5})?)(?P<units>s|m|h|d|w)? on the string
\* since: every part of the regex can match nothing, so the leftmost match
\* starts at the start of the string
SinceCaptures(since) ==
    LET whole == DigitsCount(since, 1, 10)
        point == whole + 1 <= Len(since) /\ since[whole + 1] = "."
        fract == IF point THEN DigitsCount(since, whole + 2, 5) ELSE 0
        last  == IF point THEN whole + 1 + fract ELSE whole
    IN  [whole |-> SubSeq(since, 1, whole),
         point |-> point,
         fract |-> SubSeq(since, whole + 2, whole + 1 + fract),
         units |-> IF last + 1 <= Len(since) /\ since[last + 1] \in SinceUnits
                   THEN Some(since[last + 1])
                   ELSE None]

\* f64::from_str accepts the captured value when it has a digit
IsF64(c) == c.whole # <<>> \/ c.fract # <<>>

\* the results that (value * factor).round() as i64 can have, for the value
\* whole.fract: the product is rounded half away from zero; when the exact
\* product is a tie and the value is not a binary fraction, the f64 product
\* falls on either side of the tie
Rounded(c, factor) ==
    LET scale  == 10 ^ Len(c.fract)
        whole  == Decimal(c.whole)
        fract  == Decimal(c.fract)
        up     == whole * factor + (2 * fract * factor + scale) \div (2 * scale)
        tie    == (2 * fract * factor) % (2 * scale) = scale
        binary == fract % (5 ^ Len(c.fract)) = 0
    IN  IF tie /\ ~binary THEN {up - 1, up} ELSE {up}

\* the match on the units (images.rs 184-190), as a number of seconds:
\* Duration::seconds for s, m, d and w, Duration::minutes for h and for no
\* unit
SecondsOf(c) ==
    LET units == IF c.units.some THEN c.units.val ELSE "h"
    IN  CASE units = "s" -> Rounded(c, 1)
          [] units = "m" -> Rounded(c, 60)
          [] units = "d" -> Rounded(c, 86400)
          [] units = "w" -> Rounded(c, 604800)
          [] OTHER       -> {60 * minutes : minutes \in Rounded(c, 60)}

\* parse_since_string(since) (images.rs 169-191): the Durations it can
\* return, in seconds, or the ParseNumeric error
ParseSinceString(since) ==
    LET c == SinceCaptures(since)
    IN  IF ~IsF64(c) THEN {[outcome |-> "err", seconds |-> 0]}
        ELSE {[outcome |-> "ok", seconds |-> n] : n \in SecondsOf(c)}

-----------------------------------------------------------------------------
(* The parsers, each run on its own *)

\* the call of a parser: the function and the string handed to it
ParserCall(fn, s) == [fn |-> fn, s |-> s]

\* ImageVersion::new(image_str), and get() of the value when it is Ok
ImageVersionNewGet ==
    /\ phase = "parse"
    /\ arg.fn = "ImageVersion::new"
    /\ LET r == ImageVersionNew(arg.s)
       IN  parsed' = [new |-> r, get |-> IF r.ok THEN ImageVersionGet(r) ELSE <<>>]
    /\ phase' = "parsed"
    /\ UNCHANGED <<core_vars, join_vars, written, contents, arg>>

\* de_port_range of the port-range string of the configuration
DePortRangeCall ==
    /\ phase = "parse"
    /\ arg.fn = "de_port_range"
    /\ parsed' = DePortRange(arg.s)
    /\ phase' = IF parsed'.outcome = "panic" THEN "aborted" ELSE "parsed"
    /\ UNCHANGED <<core_vars, join_vars, written, contents, arg>>

\* PortMapping::deserialize of a port token of a fragment file
PortMappingDeserializeCall ==
    /\ phase = "parse"
    /\ arg.fn = "PortMapping::deserialize"
    /\ parsed' = PortMappingDeserialize(arg.s)
    /\ phase' = "parsed"
    /\ UNCHANGED <<core_vars, join_vars, written, contents, arg>>

\* parse_since_string of the since argument of the command line
ParseSinceStringCall ==
    /\ phase = "parse"
    /\ arg.fn = "parse_since_string"
    /\ parsed' \in ParseSinceString(arg.s)
    /\ phase' = "parsed"
    /\ UNCHANGED <<core_vars, join_vars, written, contents, arg>>

-----------------------------------------------------------------------------
(* The inputs *)

\* the names of templates and scenarios, in the order of String::cmp
NameList == << <<"a">>, <<"a", "b">>, <<"b">>, <<"c">> >>

Elements(seq) == {seq[i] : i \in 1..Len(seq)}

Names == Elements(NameList)

\* the names of a mixed catalog and scenario table
MixedNameList == SubSeq(NameList, 1, 3)

\* the lists of at most k entries over a set of names
Lists(names, k) == UNION {[1..j -> names] : j \in 0..k}

\* The tables (name -> list) over the keys `keys` that hold at most `budget`
\* list entries in total; a key may be absent. With forward, the list of a
\* key names only keys that follow it in `keys` (the table is acyclic).
RECURSIVE Tables(_, _, _, _)
Tables(keys, targets, forward, budget) ==
    IF keys = <<>> THEN {<<>>}
    ELSE LET k    == Head(keys)
             rest == Tail(keys)
             tgts == IF forward THEN Elements(rest) ELSE targets
         IN  Tables(rest, targets, forward, budget)
             \cup UNION {{(k :> l) @@ t :
                             t \in Tables(rest, targets, forward, budget - Len(l))} :
                         l \in Lists(tgts, budget)}

RECURSIVE TableEntries(_, _)
TableEntries(table, keys) ==
    IF keys = <<>> THEN 0
    ELSE (IF Head(keys) \in DOMAIN table THEN Len(table[Head(keys)]) ELSE 0)
         + TableEntries(table, Tail(keys))

\* catalogs and scenario tables over three names, cycles included
MixedConfigs ==
    UNION {{<<t, s>> :
               s \in Tables(MixedNameList, Elements(MixedNameList), FALSE,
                            MaxEntries - TableEntries(t, MixedNameList))} :
           t \in Tables(MixedNameList, Elements(MixedNameList), FALSE, MaxEntries)}

\* acyclic catalogs over four names, without scenarios
DagConfigs == {<<t, <<>> >> : t \in Tables(NameList, Names, TRUE, MaxDagEntries)}

\* the image of the templates whose image does not matter
PlainImage == <<"a", ":", "1">>

\* the catalog that ComposeServiceMap::new builds from the fragments
Catalog(deps) == [n \in DOMAIN deps |-> NewService(n, Fragment(PlainImage, deps[n]))]

\* a readable template directory and its fragment files
Directory(files) == [readable |-> TRUE, files |-> files]

\* a template directory that cannot be read
Unreadable == [readable |-> FALSE, files |-> <<>>]

\* build_service_list has not been called
NothingResolved ==
    /\ outcome = "none"
    /\ required_services = <<>>
    /\ error = <<>>
    /\ calls = <<>>
    /\ manifest = <<>>
    /\ contents = <<>>

\* nothing is printed and no file is written before main starts
NothingReported ==
    /\ conflicting_ports = <<>>
    /\ free_ports = None
    /\ written = NotWritten

\* no parser is run on its own
NothingParsed ==
    /\ arg = <<>>
    /\ parsed = <<>>

InitResolve ==
    /\ \E cfg \in MixedConfigs \cup DagConfigs :
           /\ templates = Catalog(cfg[1])
           /\ scenarios = cfg[2]
    /\ scenario \in Names
    /\ running = <<>>
    /\ local = <<>>
    /\ phase = "config"
    /\ NothingResolved
    /\ dir = Directory([n \in DOMAIN templates |-> templates[n].fragment])
    /\ port_range = None
    /\ versions = Ok(<<>>)
    /\ images = Ok(<<>>)
    /\ fragment_map = Ok(<<>>)
    /\ volumes = Ok(<<>>)
    /\ NothingReported
    /\ NothingParsed

\* the image strings of the templates: every string over these characters
\* that ComposeServiceMap::new can load (get_image_name().unwrap() succeeds)
ImageChars == {"a", "/", ":"}

ImageStrings ==
    {s \in UNION {[1..n -> ImageChars] : n \in 0..MaxImageLen} : ImageVersionNew(s).ok}

\* the keys under which the template is loaded: "a" is also an image name
ServiceKeys == {<<"s">>, <<"a">>}

\* the entries of the reference feed: two of them have the same name
RunningEntries ==
    {RunningService(<<"s">>, <<"1">>), RunningService(<<"s">>, <<"2">>),
     RunningService(<<"a">>, <<"2">>)}

RunningLists == UNION {[1..n -> RunningEntries] : n \in 0..MaxRunning}

LocalEntries ==
    {ContainerImage(r, <<"9">>) : r \in {<<"a">>, <<"a", "/", "a">>}}

\* ContainerImages::find returns one image per service name, so no two images
\* of the list have the same repository
LocalLists ==
    {l \in UNION {[1..n -> LocalEntries] : n \in 0..MaxLocal} :
        \A i, j \in 1..Len(l) : i # j => l[i].repository # l[j].repository}

\* the fragment of the template loaded under the key k: the one under "s"
\* has every field set, the one under "a" only the image
TemplateFragment(k, image) ==
    IF k = <<"s">>
    THEN ComposeServiceFragment(image, Some(<<"p">>), Some(<<"r">>),
                                << <<"b">> >>, Some(<< <<"v">> >>),
                                Some(<<"e">> :> <<"x">>),
                                Some(<<PortMapping(Some(80), 81), PortMapping(None, 82)>>),
                                Some([mode |-> None, replicas |-> Some(2)]))
    ELSE Fragment(image, <<>>)

InitGenerate ==
    /\ \E k \in ServiceKeys, image \in ImageStrings :
           /\ templates = (k :> NewService(k, TemplateFragment(k, image)))
           /\ scenario = k
    /\ scenarios = <<>>
    /\ running = <<>>
    /\ local = <<>>
    /\ phase = "config"
    /\ NothingResolved
    /\ dir = Directory([n \in DOMAIN templates |-> templates[n].fragment])
    /\ port_range = None
    /\ \E l \in RunningLists : versions = Ok(l)
    /\ \E l \in LocalLists : images = Ok(l)
    /\ fragment_map = Ok(<<>>)
    /\ volumes = Ok(<<>>)
    /\ NothingReported
    /\ NothingParsed

\* a port mapping without a source and two with one
PortMappings == {PortMapping(None, 80), PortMapping(Some(80), 80), PortMapping(Some(81), 80)}

\* the names of the fragment files
Stems == << <<"a">>, <<"b">>, <<"c">> >>

\* the fragment of a file that declares the port mappings l
PortsFragment(l) ==
    ComposeServiceFragment(PlainImage, None, None, <<>>, None, None,
                           IF l = <<>> THEN None ELSE Some(l), None)

\* the directories of three files that declare at most MaxMappings port
\* mappings in total
PortDirectories ==
    {Directory([n \in DOMAIN t |-> PortsFragment(t[n])]) :
        t \in {u \in Tables(Stems, PortMappings, FALSE, MaxMappings) :
                  DOMAIN u = Elements(Stems)}}

\* a directory that holds a file whose image string does not parse
BadImageDirectory ==
    Directory((<<"a">> :> Fragment(PlainImage, <<>>)) @@ (<<"b">> :> Fragment(<<":">>, <<>>)))

\* the port ranges that de_port_range can give: none, or low <= high
\* the ends of the port ranges: below, among and above the claimed ports
PortRangeEnds == {79, 80, 82}

PortRanges ==
    {None} \cup {Some(r) : r \in {q \in PortRangeEnds \X PortRangeEnds : q[1] <= q[2]}}

\* main has started and none of the four futures has completed
NothingJoined ==
    /\ versions = Pending
    /\ images = Pending
    /\ fragment_map = Pending
    /\ volumes = Pending
    /\ templates = <<>>
    /\ running = <<>>
    /\ local = <<>>
    /\ phase = "start"

InitLoad ==
    /\ dir \in PortDirectories \cup {Unreadable, BadImageDirectory}
    /\ port_range \in PortRanges
    /\ scenarios = <<>>
    /\ scenario = <<"a">>
    /\ NothingJoined
    /\ NothingResolved
    /\ NothingReported
    /\ NothingParsed

\* the directories of a run of main: two templates of which one depends on
\* the other, a directory that cannot be read, and one with a bad image
MainDirectories ==
    {Directory((<<"a">> :> Fragment(<<"a", ":", "1">>, << <<"b">> >>))
               @@ (<<"b">> :> Fragment(<<"a", "/", "a">>, <<>>))),
     Unreadable,
     BadImageDirectory}

\* the scenario tables of a run of main: the member is a template, or is
\* neither a template nor a scenario
MainScenarios == {<<"s">> :> << <<"a">> >>, <<"s">> :> << <<"c">> >>}

InitMain ==
    /\ dir \in MainDirectories
    /\ port_range = None
    /\ scenarios \in MainScenarios
    /\ scenario \in {<<"s">>, <<"a">>}
    /\ NothingJoined
    /\ NothingResolved
    /\ NothingReported
    /\ NothingParsed

\* a parser is run on its own: main is not running
NotRunning ==
    /\ templates = <<>>
    /\ scenarios = <<>>
    /\ scenario = <<>>
    /\ running = <<>>
    /\ local = <<>>
    /\ NothingResolved
    /\ dir = Unreadable
    /\ port_range = None
    /\ versions = Pending
    /\ images = Pending
    /\ fragment_map = Pending
    /\ volumes = Pending
    /\ NothingReported
    /\ phase = "parse"
    /\ parsed = <<>>

\* every string over the characters of image strings, parsable or not
Strings(chars, n) == UNION {[1..k -> chars] : k \in 0..n}

InitImageVersion ==
    /\ NotRunning
    /\ \E s \in Strings(ImageChars, MaxImageLen) : arg = ParserCall("ImageVersion::new", s)

\* the characters of port-range strings: digits that make numbers below and
\* above u16::MAX, and the separator
RangeChars == {"0", "1", "7", "-"}

InitPortRange ==
    /\ NotRunning
    /\ \E s \in Strings(RangeChars, MaxRangeLen) : arg = ParserCall("de_port_range", s)

\* port numbers of one to five digits, the least and the greatest among them
PortNumbers == {0, 1, 9, 10, 80, 443, 8080, 9999, 10000, 65535}

\* the port tokens "N" and "N:M"
PortTokens ==
    {DecimalString(n) : n \in PortNumbers}
    \cup {DecimalString(n) \o <<":">> \o DecimalString(m) : n, m \in PortNumbers}

InitPortMapping ==
    /\ NotRunning
    /\ \E s \in PortTokens : arg = ParserCall("PortMapping::deserialize", s)

\* the digits of since values
SinceDigits == {"0", "1", "2", "5"}

\* since values: digits, or digits "." digits
SinceValues ==
    Strings(SinceDigits, MaxSinceWhole)
    \cup {w \o <<".">> \o f : w \in Strings(SinceDigits, MaxSinceWhole),
                              f \in Strings(SinceDigits, MaxSinceFract)}

\* since strings: a value, followed by a unit or by nothing
SinceStrings ==
    SinceValues \cup {v \o <<u>> : v \in SinceValues, u \in SinceUnits}

InitSince ==
    /\ NotRunning
    /\ \E s \in SinceStrings : arg = ParserCall("parse_since_string", s)

Init ==
    \/ InitResolve
    \/ InitGenerate
    \/ InitLoad
    \/ InitMain
    \/ InitImageVersion
    \/ InitPortRange
    \/ InitPortMapping
    \/ InitSince

Next ==
    \/ RunningServicesLoad
    \/ ContainerImagesFind
    \/ ComposeServiceMapNew
    \/ VolumesInitialise
    \/ ExamineResults
    \/ BuildServiceList
    \/ UnwrapOrElse
    \/ Generate
    \/ WriteComposeFile
    \/ ImageVersionNewGet
    \/ DePortRangeCall
    \/ PortMappingDeserializeCall
    \/ ParseSinceStringCall

Spec == Init /\ [][Next]_vars

\* resolution alone, over the catalogs and scenario tables
SpecResolve == InitResolve /\ [][BuildServiceList]_vars

\* resolution and generation for one template, over the image strings, the
\* reference feeds and the local images
SpecGenerate == InitGenerate /\ [][BuildServiceList \/ UnwrapOrElse \/ Generate]_vars

\* loading of the catalog alone, over the directories and port ranges
SpecLoad == InitLoad /\ [][ComposeServiceMapNew]_vars

\* a run of main
SpecMain ==
    InitMain /\ [][\/ RunningServicesLoad
                   \/ ContainerImagesFind
                   \/ ComposeServiceMapNew
                   \/ VolumesInitialise
                   \/ ExamineResults
                   \/ BuildServiceList
                   \/ UnwrapOrElse
                   \/ Generate
                   \/ WriteComposeFile]_vars

\* ImageVersion::new and get on their own, over the strings
SpecImageVersion == InitImageVersion /\ [][ImageVersionNewGet]_vars

\* de_port_range on its own, over the strings
SpecPortRange == InitPortRange /\ [][DePortRangeCall]_vars

\* PortMapping::deserialize on its own, over the port tokens
SpecPortMapping == InitPortMapping /\ [][PortMappingDeserializeCall]_vars

\* parse_since_string on its own, over the since strings
SpecSince == InitSince /\ [][ParseSinceStringCall]_vars

-----------------------------------------------------------------------------
(* Resolution: what the claims are stated in *)

\* build_service_list has run
Resolved == phase # "config"

\* build_service_list has returned Ok
ResolvedOk == Resolved /\ outcome = "ok"

IsTemplate(n) == n \in DOMAIN templates

IsScenario(n) == n \in DOMAIN scenarios

\* what a name contributes: a template those of its depends_on entries that
\* are templates, a name that is only a scenario its members
Contributes(n) ==
    IF IsTemplate(n)
    THEN {d \in Elements(templates[n].fragment.depends_on) : IsTemplate(d)}
    ELSE IF IsScenario(n) THEN Elements(scenarios[n])
    ELSE {}

\* the names reachable from a set of names: the least set that holds the
\* set and what each of its names contributes
RECURSIVE ReachableFrom(_)
ReachableFrom(set) ==
    LET more == set \cup UNION {Contributes(n) : n \in set}
    IN  IF more = set THEN set ELSE ReachableFrom(more)

\* the place of a name in the order of the names
Rank(n) == CHOOSE i \in 1..Len(NameList) : NameList[i] = n

\* C1: build_service_list terminates for every catalog and scenario table:
\* it returns Ok or Err and never exhausts the call stack, also when a
\* scenario lists itself, scenarios list each other in a cycle or the
\* depends_on entries of templates form a cycle.
C1_Terminates == Resolved => outcome \in {"ok", "err"}

\* C2: a successful build_service_list returns exactly the templates
\* reachable from the root, and the result is closed under the depends_on
\* entries that are templates.
C2_ExactlyReachable ==
    ResolvedOk =>
        /\ Elements(required_services) = {n \in ReachableFrom({scenario}) : IsTemplate(n)}
        /\ \A n \in Elements(required_services) :
               \A d \in Elements(templates[n].fragment.depends_on) :
                   IsTemplate(d) => d \in Elements(required_services)

\* C2 witness: a scenario root, whose member is a template that brings in
\* another template through depends_on
C2_Witness ==
    /\ ResolvedOk
    /\ ~IsTemplate(scenario)
    /\ \E n, d \in Elements(required_services) :
           /\ n # d
           /\ n \in Elements(scenarios[scenario])
           /\ d \notin Elements(scenarios[scenario])
           /\ d \in Elements(templates[n].fragment.depends_on)

\* C3: the list returned by a successful build_service_list is strictly
\* increasing in service name: sorted, and each service exactly once.
C3_StrictlyIncreasing ==
    ResolvedOk =>
        \A i, j \in 1..Len(required_services) :
            i < j => Rank(templates[required_services[i]].name)
                         < Rank(templates[required_services[j]].name)

\* C3 witness: the diamond, a depends on ab and b, both depend on c
C3_Witness ==
    /\ ResolvedOk
    /\ scenario = <<"a">>
    /\ Names \subseteq DOMAIN templates
    /\ Elements(templates[<<"a">>].fragment.depends_on) = {<<"a", "b">>, <<"b">>}
    /\ <<"c">> \in Elements(templates[<<"a", "b">>].fragment.depends_on)
    /\ <<"c">> \in Elements(templates[<<"b">>].fragment.depends_on)
    /\ Len(required_services) = 4

\* C4: when the root, or a scenario member that resolution reaches, is
\* neither a template nor a scenario, build_service_list fails, the root
\* cause of the error is NotFound with exactly that name, and no list is
\* returned.
C4_NotFound ==
    Resolved =>
        \A i \in 1..Len(calls) :
            (calls[i].from \in {"root", "member"}
             /\ ~IsTemplate(calls[i].name) /\ ~IsScenario(calls[i].name))
            => /\ outcome = "err"
               /\ error # <<>>
               /\ error[Len(error)] = NotFound(calls[i].name)
               /\ required_services = <<>>

\* C4 witness: the unknown name is a member of a scenario that is itself a
\* member of the root, and a template was resolved before it
C4_Witness ==
    /\ Resolved
    /\ outcome = "err"
    /\ Len(calls) >= 3
    /\ LET c == calls[Len(calls)] IN
           /\ c.from = "member"
           /\ c.parent # scenario
           /\ ~IsTemplate(c.name) /\ ~IsScenario(c.name)
           /\ error[Len(error)] = NotFound(c.name)

\* C5: a depends_on entry that is not a template (a scenario or no name at
\* all) is skipped: it is never expanded, nothing but templates reach the
\* result, no error is put down to a dependency, and the resolution of a
\* root that is a template succeeds.
C5_NonTemplateDependencySkipped ==
    Resolved =>
        /\ \A i \in 1..Len(calls) : calls[i].from = "dep" => IsTemplate(calls[i].name)
        /\ \A i \in 1..Len(error) : error[i].kind # "ServiceDeps"
        /\ \A n \in Elements(required_services) : IsTemplate(n)
        /\ IsTemplate(scenario) => outcome = "ok"

\* C5 witness: the root is a template whose depends_on names a scenario and
\* a name that is nothing, and it alone is the result
C5_Witness ==
    /\ ResolvedOk
    /\ IsTemplate(scenario)
    /\ \E d, e \in Elements(templates[scenario].fragment.depends_on) :
           /\ ~IsTemplate(d) /\ IsScenario(d)
           /\ ~IsTemplate(e) /\ ~IsScenario(e)
    /\ required_services = <<scenario>>
    /\ Len(calls) = 1

\* C6: a name that is a template and a scenario is resolved as the template:
\* the template and its template dependencies are added and the members of
\* the scenario of that name are not expanded.
C6_TemplatePreferred ==
    Resolved =>
        /\ \A i \in 1..Len(calls) : calls[i].from = "member" => ~IsTemplate(calls[i].parent)
        /\ (IsTemplate(scenario) /\ IsScenario(scenario)) =>
               /\ outcome = "ok"
               /\ scenario \in Elements(required_services)
               /\ \A d \in Elements(templates[scenario].fragment.depends_on) :
                      IsTemplate(d) => d \in Elements(required_services)
               /\ \A m \in Elements(scenarios[scenario]) :
                      m \in Elements(required_services)
                      => m \in ReachableFrom(Contributes(scenario) \cup {scenario})

\* C6 witness: the root is both, its template depends on a template and its
\* scenario lists another template, which stays out of the result
C6_Witness ==
    /\ ResolvedOk
    /\ IsTemplate(scenario) /\ IsScenario(scenario)
    /\ \E d \in Elements(templates[scenario].fragment.depends_on) :
           d # scenario /\ d \in Elements(required_services)
    /\ \E m \in Elements(scenarios[scenario]) :
           IsTemplate(m) /\ m \notin Elements(required_services)

-----------------------------------------------------------------------------
(* Generation: what the claims are stated in *)

Generated == phase = "generated"

\* the local images whose key is the image-without-tag string of a service
LocalMatches(n) == {i \in 1..Len(local) : local[i].repository = templates[n].image}

\* the name component of the image of a service
BareName(n) == ImageVersionNew(templates[n].fragment.image).name

\* the version embedded in the image string of a service
EmbeddedVersion(n) == ImageVersionNew(templates[n].fragment.image).version

\* the entries of the reference feed of a given name
RunningNamed(name) == {i \in 1..Len(running) : running[i].name = name}

\* the last of a set of entries: the one the lookup table keeps
LastOf(is) == CHOOSE i \in is : \A j \in is : j <= i

\* the image string of a version of a service
ImageWithVersion(n, v) == templates[n].image \o <<":">> \o v

\* C7: if the key of a local image record equals the image-without-tag
\* string of a service, the emitted version is the tag of that record,
\* whatever the running versions and the embedded version are.
C7_LocalImageWins ==
    Generated =>
        \A n \in Elements(required_services) :
            \A i \in LocalMatches(n) :
                /\ n \in DOMAIN manifest
                /\ manifest[n].image = ImageWithVersion(n, local[i].tag)
                /\ ImageVersionNew(manifest[n].image).version = Some(local[i].tag)

\* C7 witness: a local image matches while the feed has entries for the
\* catalog key and for the image name and the image embeds a version
C7_Witness ==
    /\ Generated
    /\ \E n \in Elements(required_services) :
           /\ LocalMatches(n) # {}
           /\ n # BareName(n)
           /\ RunningNamed(n) # {} /\ RunningNamed(BareName(n)) # {}
           /\ EmbeddedVersion(n).some
           /\ templates[n].fragment.image = <<"a", "/", "a", ":", "a">>
           /\ manifest[n].image = <<"a", "/", "a", ":", "9">>

\* C8: with no local image record matching, and the feed holding an entry
\* named after the catalog key and one named after the bare image name, the
\* version of the entry named after the catalog key is emitted.
C8_ServiceKeyBeforeImageName ==
    Generated =>
        \A n \in Elements(required_services) :
            (LocalMatches(n) = {} /\ RunningNamed(n) # {} /\ RunningNamed(BareName(n)) # {})
            => /\ n \in DOMAIN manifest
               /\ manifest[n].image =
                      ImageWithVersion(n, running[LastOf(RunningNamed(n))].version)

\* C8 witness: the two entries differ in version and the entry of the image
\* name is the later one
C8_Witness ==
    /\ Generated
    /\ \E n \in Elements(required_services) :
           /\ LocalMatches(n) = {}
           /\ n # BareName(n)
           /\ RunningNamed(n) # {} /\ RunningNamed(BareName(n)) # {}
           /\ LastOf(RunningNamed(n)) < LastOf(RunningNamed(BareName(n)))
           /\ running[LastOf(RunningNamed(n))].version
                  # running[LastOf(RunningNamed(BareName(n)))].version
           /\ ImageVersionNew(manifest[n].image).version
                  = Some(running[LastOf(RunningNamed(n))].version)

\* C9: with no local image record matching and no entry named after the
\* catalog key, an entry named after the bare image name overrides the
\* version embedded in the image string.
C9_ImageNameOverridesEmbedded ==
    Generated =>
        \A n \in Elements(required_services) :
            (LocalMatches(n) = {} /\ RunningNamed(n) = {} /\ RunningNamed(BareName(n)) # {})
            => /\ n \in DOMAIN manifest
               /\ manifest[n].image =
                      ImageWithVersion(n, running[LastOf(RunningNamed(BareName(n)))].version)

\* C9 witness: the image embeds another version than the entry gives
C9_Witness ==
    /\ Generated
    /\ \E n \in Elements(required_services) :
           /\ LocalMatches(n) = {} /\ RunningNamed(n) = {}
           /\ RunningNamed(BareName(n)) # {}
           /\ templates[n].fragment.image = <<"a", "/", "a", ":", "a">>
           /\ manifest[n].image = <<"a", "/", "a", ":", "2">>

\* no local image record and no entry of the feed matches the service
NothingMatches(n) ==
    LocalMatches(n) = {} /\ RunningNamed(n) = {} /\ RunningNamed(BareName(n)) = {}

\* the first half of C10: with nothing matching, the emitted image carries
\* the embedded version, or none
EmbeddedVersionKept ==
    Generated =>
        \A n \in Elements(required_services) :
            NothingMatches(n)
            => /\ n \in DOMAIN manifest
               /\ ImageVersionNew(manifest[n].image).version = EmbeddedVersion(n)

\* C10: with nothing matching, the emitted image carries the version embedded
\* in the image string of the template, or no version suffix when it embeds
\* none; with empty local images and running versions every emitted image
\* equals the image string of its template.
C10_FallsBackToTemplateImage ==
    Generated =>
        \A n \in Elements(required_services) :
            /\ NothingMatches(n)
               => /\ n \in DOMAIN manifest
                  /\ ImageVersionNew(manifest[n].image).version = EmbeddedVersion(n)
            /\ (local = <<>> /\ running = <<>>)
               => /\ n \in DOMAIN manifest
                  /\ manifest[n].image = templates[n].fragment.image

\* the versions that generate can take from its inputs for a service
VersionsOffered(n) ==
    {None, EmbeddedVersion(n)}
    \cup {Some(running[i].version) : i \in 1..Len(running)}
    \cup {Some(local[i].tag) : i \in 1..Len(local)}

\* C11: every fragment of the manifest equals the fragment of its template
\* in every field other than image (platform, restart, depends_on, volumes,
\* environment, ports and deploy are unchanged), and its image is the image
\* of the template as it stands, or the repository and the name of the
\* image of the template rendered with another version.
C11_OnlyImageRewritten ==
    Generated =>
        \A n \in DOMAIN manifest :
            LET emitted  == manifest[n]
                fragment == templates[n].fragment
                current  == ImageVersionNew(fragment.image)
            IN  /\ [emitted EXCEPT !.image = fragment.image] = fragment
                /\ \/ emitted.image = fragment.image
                   \/ \E v \in VersionsOffered(n) :
                          emitted.image = ImageVersionGet([current EXCEPT !.version = v])

\* C11 witness: a template that sets every field is emitted with another
\* version than the one it embeds
C11_Witness ==
    /\ Generated
    /\ \E n \in DOMAIN manifest :
           /\ templates[n].fragment.ports.some
           /\ templates[n].fragment.deploy.some
           /\ templates[n].fragment.depends_on # <<>>
           /\ templates[n].fragment.image = <<"a", "/", "a", ":", "a">>
           /\ manifest[n].image = <<"a", "/", "a", ":", "1">>
           /\ manifest[n].ports = templates[n].fragment.ports

-----------------------------------------------------------------------------
(* The run of main: what the claims are stated in *)

\* generate has returned the manifest
ManifestBuilt ==
    \/ phase \in {"generated", "done"}
    \/ phase = "failed" /\ error = <<WriteComposeFileError>>

\* the image string of a service parses
ImageParses(n) == ImageVersionNew(templates[n].fragment.image).ok

\* C12: the names of the manifest are exactly the names of the resolved
\* services whose image string parses: a resolved service is left out only
\* when its image string does not parse, and no other name is added.
C12_ManifestNames ==
    ManifestBuilt =>
        DOMAIN manifest = {n \in Elements(required_services) : ImageParses(n)}

\* C12 witness: the manifest of a run of main holds the member of the
\* scenario and the template it depends on, and nothing else
C12_Witness ==
    /\ phase = "done"
    /\ scenario = <<"s">>
    /\ required_services = << <<"a">>, <<"b">> >>
    /\ DOMAIN manifest = {<<"a">>, <<"b">>}
    /\ manifest[<<"b">>].image = <<"a", "/", "a">>
    /\ written = Written("full", contents)

\* a source of versions has failed: the fetch of the reference versions or
\* the enumeration of the local images
SourceFailed == versions.state = "err" \/ images.state = "err"

\* the list main uses in place of a source
ListOf(source) == IF source.state = "err" THEN <<>> ELSE source.val

\* what ends a run of main before the manifest is written, the sources of
\* versions aside
OtherFailure ==
    \/ volumes.state = "err"
    \/ fragment_map.state # "ok"
    \/ ~HasScenario(scenario)
    \/ outcome \in {"err", "overflow"}
    \/ error = <<WriteComposeFileError>>

\* C20: when the fetch of the reference versions or the enumeration of the
\* local images fails (or both), the run does not end for it: it ends early
\* only for another failure, it generates the manifest of the resolved
\* services with an empty list in place of each failed source, and that
\* manifest is what it writes.
C20_SourcesNonFatal ==
    SourceFailed =>
        /\ phase \in {"exited", "failed", "aborted"} => OtherFailure
        /\ (phase = "ready" \/ ManifestBuilt)
           => running = ListOf(versions) /\ local = ListOf(images)
        /\ ManifestBuilt
           => manifest = Versioned(required_services, 1, <<>>,
                                   ContainerLookup(ListOf(images)),
                                   RunningSvcLookup(ListOf(versions)))
        /\ phase = "done" => written = Written("full", contents)

\* C20 witness: both sources failed, and the run has resolved scenario "s"
\* and written the manifest, in which template "a" keeps its own version
C20_Witness ==
    /\ versions.state = "err"
    /\ images.state = "err"
    /\ phase = "done"
    /\ scenario = <<"s">>
    /\ running = <<>>
    /\ local = <<>>
    /\ required_services = << <<"a">>, <<"b">> >>
    /\ manifest[<<"a">>].image = <<"a", ":", "1">>
    /\ written = Written("full", contents)

-----------------------------------------------------------------------------
(* The parsers: what the claims are stated in *)

\* the index of the first c in s, or 0
FirstIndex(s, c) ==
    LET is == {i \in 1..Len(s) : s[i] = c}
    IN  IF is = {} THEN 0 ELSE CHOOSE i \in is : \A j \in is : i <= j

\* s from the i-th character on
From(s, i) == SubSeq(s, i, Len(s))

\* the segments of an image string as the grammar [repository/]name[:version]
\* reads them: the repository is the text before the first "/", the name the
\* text that follows up to the first ":", the version the text after that ":"
Segments(s) ==
    LET slash == FirstIndex(s, "/")
        rest  == IF slash = 0 THEN s ELSE From(s, slash + 1)
        colon == FirstIndex(rest, ":")
    IN  [repository |-> IF slash = 0 THEN None ELSE Some(SubSeq(s, 1, slash - 1)),
         name       |-> IF colon = 0 THEN rest ELSE SubSeq(rest, 1, colon - 1),
         version    |-> IF colon = 0 THEN None ELSE Some(From(rest, colon + 1))]

\* every segment that is there is not empty
NonEmptySegments(s) ==
    LET g == Segments(s)
    IN  /\ g.repository.some => g.repository.val # <<>>
        /\ g.name # <<>>
        /\ g.version.some => g.version.val # <<>>

\* s is of the form [repository/]name[:version]: read as the grammar reads
\* it, with the repository ending at the first "/" from the left, it has a
\* name, and the repository and the version are not empty where they are
\* there
IsImageString(s) == NonEmptySegments(s)

ImageParsed == phase = "parsed" /\ arg.fn = "ImageVersion::new"

\* C13: for every image string of the form [repository/]name[:version],
\* ImageVersion::new succeeds and get of the result is the string itself.
C13_RoundTrip ==
    (ImageParsed /\ IsImageString(arg.s)) =>
        /\ parsed.new.ok
        /\ parsed.get = arg.s

\* C13 witness: a string with a repository, a name and a version that holds
\* a further ":" has come back from get unchanged
C13_Witness ==
    /\ ImageParsed
    /\ arg.s = <<"a", "/", "a", ":", ":">>
    /\ IsImageString(arg.s)
    /\ parsed.get = arg.s

\* C14: ImageVersion::new splits an image string whose segments are not
\* empty into the repository before the first "/" (none without a "/"), the
\* name that follows up to the first ":", and the version after that ":"
\* (none without a ":").
C14_Split ==
    (ImageParsed /\ NonEmptySegments(arg.s)) =>
        /\ parsed.new.ok
        /\ parsed.new.repository = Segments(arg.s).repository
        /\ parsed.new.name = Segments(arg.s).name
        /\ parsed.new.version = Segments(arg.s).version

\* C14 witness: a string with all three segments is split into them
C14_Witness ==
    /\ ImageParsed
    /\ arg.s = <<"a", "/", "a", ":", "/">>
    /\ NonEmptySegments(arg.s)
    /\ parsed.new.repository = Some(<<"a">>)
    /\ parsed.new.name = <<"a">>
    /\ parsed.new.version = Some(<<"/">>)

\* C15: an image string whose name segment is empty (a repository prefix
\* followed directly by ":version", say) fails with ServiceName and yields
\* no ImageVersion.
C15_EmptyNameRejected ==
    (/\ ImageParsed
     /\ Segments(arg.s).name = <<>>
     /\ Segments(arg.s).repository.some \/ Segments(arg.s).version.some) =>
        /\ ~parsed.new.ok
        /\ parsed.new.err = "ServiceName"

-----------------------------------------------------------------------------
(* Loading of the catalog: what the claims are stated in *)

\* ComposeServiceMap::new has returned the catalog
Loaded == fragment_map.state = "ok"

\* the port mappings of a template
PortsOf(n) ==
    LET ports == templates[n].fragment.ports
    IN  IF ports.some THEN Elements(ports.val) ELSE {}

\* the templates that declare p as a source port
Declarers(p) == {n \in DOMAIN templates : \E pm \in PortsOf(n) : pm.source = Some(p)}

\* the ports that some mapping of the catalog names, as source or as target
PortsNamed ==
    UNION {{pm.target} \cup (IF pm.source.some THEN {pm.source.val} ELSE {}) :
           pm \in UNION {PortsOf(n) : n \in DOMAIN templates}}

\* the set of claimed ports that the loader has built when its loop ends
AssignedPorts ==
    LET order == CHOOSE o \in IterationOrders(DOMAIN dir.files) : TRUE
    IN  LoadEntries(dir.files, order, 1, NoEntries).assigned_ports

\* C16: after a catalog is loaded, every source port that two or more
\* templates declare is reported as a conflict that lists those templates,
\* and a port mapping that has only a target contributes neither to a
\* reported conflict nor to the set of claimed ports: every name listed
\* with a port declares it as a source, and every claimed port is the
\* source of some mapping.
C16_ConflictsReported ==
    Loaded =>
        /\ \A p \in PortsNamed :
               Cardinality(Declarers(p)) >= 2
               => /\ p \in DOMAIN conflicting_ports
                  /\ Elements(conflicting_ports[p]) = Declarers(p)
        /\ \A p \in DOMAIN conflicting_ports :
               Elements(conflicting_ports[p]) \subseteq Declarers(p)
        /\ \A p \in AssignedPorts : Declarers(p) # {}

\* C16 witness: two templates declare the source port 80 and are listed
\* with it, and a third names 80 only as a target and is not
C16_Witness ==
    /\ Loaded
    /\ Cardinality(Declarers(80)) = 2
    /\ 80 \in DOMAIN conflicting_ports
    /\ Len(conflicting_ports[80]) = 2
    /\ \E n \in DOMAIN templates :
           /\ PortMapping(None, 80) \in PortsOf(n)
           /\ n \notin Declarers(80)
           /\ n \notin Elements(conflicting_ports[80])

\* the ports of the configured range that no template declares as a source
FreeInRange ==
    IF port_range.some
    THEN {p \in (port_range.val[1])..(port_range.val[2]) : Declarers(p) = {}}
    ELSE {}

\* the suggestions are the n lowest free ports of the range, in ascending
\* order, n being the smaller of `conflicts` and the number of free ports
LowestFree(suggested, conflicts) ==
    /\ \A i \in 1..Len(suggested) : suggested[i] \in FreeInRange
    /\ \A i, j \in 1..Len(suggested) : i < j => suggested[i] < suggested[j]
    /\ \A q \in FreeInRange \ Elements(suggested) :
           \A i \in 1..Len(suggested) : suggested[i] < q
    /\ Len(suggested) = Min(conflicts, Cardinality(FreeInRange))

\* the free ports as the loader counts conflicts: against the ports of its
\* own report, the suggestions are right
FreePortsOfReport ==
    Loaded =>
        /\ free_ports.some <=> (DOMAIN conflicting_ports # {} /\ port_range.some)
        /\ free_ports.some
           => LowestFree(free_ports.val, Cardinality(DOMAIN conflicting_ports))

\* the source ports that two or more templates declare
ConflictsOfTemplates == {p \in PortsNamed : Cardinality(Declarers(p)) >= 2}

\* C17: when conflicts exist (source ports that more than one template
\* declares) and a port range is configured, the suggested free ports lie in
\* the range, are the source port of no template, are the lowest such ports
\* in ascending order, and are as many as the smaller of the number of
\* conflicting ports and the number of free ports of the range; without a
\* conflict or without a range no suggestion is made.
C17_FreePortsSuggested ==
    Loaded =>
        /\ free_ports.some <=> (ConflictsOfTemplates # {} /\ port_range.some)
        /\ free_ports.some
           => LowestFree(free_ports.val, Cardinality(ConflictsOfTemplates))

\* s is a string of digits that denotes a number of 0..u16::MAX
IsPortNumber(s) == /\ s # <<>>
                   /\ \A i \in 1..Len(s) : IsDigit(s[i])
                   /\ Decimal(s) <= U16Max

\* s is two port numbers joined by "-"
IsPortRangeString(s) ==
    \E i \in 1..Len(s) :
        /\ s[i] = "-"
        /\ IsPortNumber(SubSeq(s, 1, i - 1))
        /\ IsPortNumber(From(s, i + 1))

PortRangeParsed == phase \in {"parsed", "aborted"} /\ arg.fn = "de_port_range"

\* C18: for every port-range string de_port_range returns, without an error
\* or a crash, none or a pair (low, high) of uint16 with low <= high, and it
\* returns none for a string that is not two port numbers joined by "-" (a
\* side is missing, or a number is above 65535).
C18_PortRangeOrNone ==
    PortRangeParsed =>
        /\ parsed.outcome = "ok"
        /\ parsed.ports.some
           => /\ parsed.ports.val[1] \in 0..U16Max
              /\ parsed.ports.val[2] \in 0..U16Max
              /\ parsed.ports.val[1] <= parsed.ports.val[2]
        /\ ~IsPortRangeString(arg.s) => parsed.ports = None

\* de_port_range returns for every string; this does not hold: "70000-1"
\* is matched by the regex and parse::<u16>().unwrap() panics on "70000"
DePortRangeReturns == PortRangeParsed => parsed.outcome = "ok"

\* what holds of de_port_range: when it returns, it returns none or a pair
\* (low, high) of uint16 with low <= high
PortRangeOrdered ==
    (PortRangeParsed /\ parsed.outcome = "ok" /\ parsed.ports.some) =>
        /\ parsed.ports.val[1] \in 1..U16Max
        /\ parsed.ports.val[2] \in 1..U16Max
        /\ parsed.ports.val[1] <= parsed.ports.val[2]

PortMappingParsed == phase = "parsed" /\ arg.fn = "PortMapping::deserialize"

\* C19: for N and M in 0..65535 the port token "N" deserializes to source =
\* none and target = N, and "N:M" to source = N and target = M.
C19_PortTokens ==
    PortMappingParsed =>
        /\ \A n \in PortNumbers :
               arg.s = DecimalString(n)
               => parsed = Ok(PortMapping(None, n))
        /\ \A n, m \in PortNumbers :
               arg.s = DecimalString(n) \o <<":">> \o DecimalString(m)
               => parsed = Ok(PortMapping(Some(n), m))

\* C19 witness: the token "8080:65535" has been deserialized into the source
\* 8080 and the target 65535
C19_Witness ==
    /\ PortMappingParsed
    /\ arg.s = <<"8", "0", "8", "0", ":", "6", "5", "5", "3", "5">>
    /\ parsed = Ok(PortMapping(Some(8080), 65535))

-----------------------------------------------------------------------------
(* The end of a run of main: what the claims are stated in *)

\* the catalog loaded, the scenario is a key of the scenario table, the
\* resolution succeeded and generate returned the manifest
RunSucceeded ==
    /\ fragment_map.state = "ok"
    /\ HasScenario(scenario)
    /\ outcome = "ok"
    /\ ManifestBuilt

\* main has returned, the process has exited or it has crashed
RunEnded ==
    \/ phase \in {"exited", "failed", "aborted", "done"}
    \/ phase = "resolved" /\ outcome # "ok"

\* the process ended with a failure
EndedInFailure == RunEnded /\ phase # "done"

\* C21: docker-compose.yml is written only in a run in which the catalog
\* loaded, the scenario is a key of the scenario table, the resolution
\* succeeded and the generation succeeded; every other run that has ended
\* ended in a failure and wrote nothing, not even a part of the manifest.
C21_WrittenOnlyOnSuccess ==
    /\ written # NotWritten => RunSucceeded
    /\ (RunEnded /\ ~RunSucceeded) => (EndedInFailure /\ written = NotWritten)

\* C21 witness: the manifest was written in a run in which the four tasks
\* and every later step succeeded
C21_Witness ==
    /\ phase = "done"
    /\ RunSucceeded
    /\ versions.state = "ok"
    /\ images.state = "ok"
    /\ written = Written("full", contents)
    /\ DOMAIN manifest # {}


-----------------------------------------------------------------------------
(* Determinism: what the claims are stated in *)

\* the service lists that build_service_list can return on the inputs of
\* this run: one for each order in which the HashMap svcs is iterated
ServiceListsOfRuns ==
    {SortServices(order) : order \in IterationOrders(ResolveRoot(scenario).svcs)}

\* the texts that generate can return on the inputs of this run: one for
\* each order in which the HashMap services is iterated
ContentsOfRuns ==
    {ToYamlString(manifest, order) : order \in IterationOrders(DOMAIN manifest)}

\* C22: resolution and generation are deterministic: every run of
\* build_service_list and generate on the catalog, scenario table, running
\* versions and local images of this run returns the service list and the
\* manifest text that this run returned.
C22_Deterministic ==
    /\ (phase # "config" /\ outcome = "ok")
       => ServiceListsOfRuns = {required_services}
    /\ ManifestBuilt => ContentsOfRuns = {contents}

\* what holds of the two functions: the service list is the same in every
\* run, and so is the map of the manifest; only the order of the services
\* in the text differs
SameServicesInEveryRun ==
    /\ (phase # "config" /\ outcome = "ok")
       => ServiceListsOfRuns = {required_services}
    /\ ManifestBuilt
       => \A text \in ContentsOfRuns :
              {text.services[i] : i \in DOMAIN text.services}
              = {contents.services[i] : i \in DOMAIN contents.services}

-----------------------------------------------------------------------------
(* parse_since_string: what the claims are stated in *)

SinceParsed == phase = "parsed" /\ arg.fn = "parse_since_string"

\* the value of a since string: what precedes its unit
SinceValue(s) ==
    IF s # <<>> /\ s[Len(s)] \in SinceUnits THEN SubSeq(s, 1, Len(s) - 1) ELSE s

\* the seconds of one unit; no unit is hours
SecondsPerUnit(s) ==
    IF s = <<>> \/ s[Len(s)] \notin SinceUnits THEN 3600
    ELSE CASE s[Len(s)] = "s" -> 1
           [] s[Len(s)] = "m" -> 60
           [] s[Len(s)] = "h" -> 3600
           [] s[Len(s)] = "d" -> 86400
           [] s[Len(s)] = "w" -> 604800

\* the digits of a value before and after its point
WholeOf(v) == SubSeq(v, 1, IF FirstIndex(v, ".") = 0 THEN Len(v) ELSE FirstIndex(v, ".") - 1)

FractOf(v) == IF FirstIndex(v, ".") = 0 THEN <<>> ELSE From(v, FirstIndex(v, ".") + 1)

\* the value is a number: it has a digit
IsSinceNumber(v) == WholeOf(v) # <<>> \/ FractOf(v) # <<>>

Abs(n) == IF n < 0 THEN 0 - n ELSE n

\* n is the number v * factor rounded to a nearest integer
IsNearest(n, v, factor) ==
    LET scale == 10 ^ Len(FractOf(v))
        rest  == n - Decimal(WholeOf(v)) * factor
    IN  /\ Abs(rest) <= factor + 1
        /\ 2 * Abs(rest * scale - Decimal(FractOf(v)) * factor) <= scale

\* C23: parse_since_string maps a value v followed by a unit s, m, h, d or w
\* to v times 1, 60, 3600, 86400 or 604800 seconds, rounded to the nearest
\* second, and a value without a unit is taken as hours.
C23_SinceSeconds ==
    (SinceParsed /\ IsSinceNumber(SinceValue(arg.s))) =>
        /\ parsed.outcome = "ok"
        /\ IsNearest(parsed.seconds, SinceValue(arg.s), SecondsPerUnit(arg.s))

\* what holds of parse_since_string: the claim for the units s, m, d and w,
\* and for hours the nearest minute
SinceSecondsOrMinutes ==
    (SinceParsed /\ IsSinceNumber(SinceValue(arg.s))) =>
        /\ parsed.outcome = "ok"
        /\ IF SecondsPerUnit(arg.s) = 3600
           THEN /\ parsed.seconds % 60 = 0
                /\ IsNearest(parsed.seconds \div 60, SinceValue(arg.s), 60)
           ELSE IsNearest(parsed.seconds, SinceValue(arg.s), SecondsPerUnit(arg.s))


-----------------------------------------------------------------------------
(* The calls of the resolver: what the claims are stated in *)

\* the calls of build_services_recursive for the name n, the root call
\* included
CallsFor(n) == {i \in DOMAIN calls : calls[i].name = n}

\* C24: during a build_service_list call that returns, no name is expanded
\* twice: build_services_recursive is called at most once for a template or
\* scenario name, every later occurrence of the name being skipped.
C24_NoNameExpandedTwice ==
    (Resolved /\ outcome \in {"ok", "err"}) =>
        \A n \in Names : Cardinality(CallsFor(n)) <= 1

\* what holds of the resolver: a template is expanded at most once
TemplateExpandedOnce ==
    (Resolved /\ outcome \in {"ok", "err"}) =>
        \A n \in DOMAIN templates : Cardinality(CallsFor(n)) <= 1


-----------------------------------------------------------------------------
(* The join of the four tasks: what the claims are stated in *)

\* the four futures of tokio::join! have completed
AllCompleted ==
    /\ versions.state # "pending"
    /\ images.state # "pending"
    /\ fragment_map.state # "pending"
    /\ volumes.state # "pending"

\* a future of the join has returned Err
TaskFailed ==
    \/ versions.state = "err"
    \/ images.state = "err"
    \/ fragment_map.state = "err"
    \/ volumes.state = "err"

\* C25: the four tasks are joined: whatever the interleaving and whether or
\* not another task has failed, each task has run to its completion once the
\* run has left the join, and no result is examined before that.
C25_Joined == phase # "start" => AllCompleted

\* what holds of the join: no result is examined before the four tasks have
\* completed, and a task that returns Err stops no other task; only the
\* panic of a task ends the tasks that are still running
JoinedUnlessPanic ==
    /\ phase \notin {"start", "aborted"} => AllCompleted
    /\ (phase = "aborted" /\ ~AllCompleted) => fragment_map.state = "pending"


-----------------------------------------------------------------------------
(* The conflict report and the failure of the load: what the claims are
   stated in *)

\* C26: a source port is reported as a conflict only when at least two
\* distinct templates declare it; a template that lists the same source
\* port more than once does not make it a conflict.
C26_ConflictNeedsTwoTemplates ==
    Loaded =>
        \A p \in DOMAIN conflicting_ports : Cardinality(Declarers(p)) >= 2

\* what holds of the report: a reported port is listed at least twice as a
\* source in the catalog, in two templates or in one
ReportedPortListedTwice ==
    Loaded =>
        \A p \in DOMAIN conflicting_ports :
            /\ Len(conflicting_ports[p]) >= 2
            /\ Declarers(p) # {}
            /\ Elements(conflicting_ports[p]) = Declarers(p)


\* the template directory holds a file whose image string does not parse
HasBadImage ==
    /\ dir.readable
    /\ \E n \in DOMAIN dir.files : ~ImageVersionNew(dir.files[n].image).ok

\* ComposeServiceMap::new has ended: it has returned, or it has panicked
LoadEnded == fragment_map.state # "pending" \/ phase = "aborted"

\* C27: the load of a catalog that holds a template whose image string does
\* not parse ends in an error value, RepositoryFormat or ServiceName; it
\* does not end in a crash, and the template is not accepted.
C27_BadImageReported ==
    (HasBadImage /\ LoadEnded) =>
        /\ phase # "aborted"
        /\ fragment_map.state = "err"
        /\ fragment_map.val[1].kind \in {"RepositoryFormat", "ServiceName"}

\* what holds of the load: a catalog with such a template is never returned
\* and none of its templates is accepted; the load ends in a panic
BadImageAborts ==
    (HasBadImage /\ LoadEnded) =>
        /\ phase = "aborted"
        /\ fragment_map.state = "pending"
        /\ templates = <<>>


-----------------------------------------------------------------------------
(* The error chain of the resolver: what the claims are stated in *)

\* the call that made the i-th call: the latest earlier call for the name
\* that the i-th call was made from
CallerOf(i) ==
    LET js == {j \in 1..(i - 1) : calls[j].name = calls[i].parent}
    IN  CHOOSE j \in js : \A k \in js : k <= j

\* the names of the frames of build_services_recursive that are on the
\* stack during the i-th call, from the root call to the i-th
RECURSIVE PathTo(_)
PathTo(i) ==
    IF calls[i].from = "root" THEN <<calls[i].name>>
    ELSE Append(PathTo(CallerOf(i)), calls[i].name)

\* the path on which the resolution failed: the stack of the last call
FailedPath == PathTo(Len(calls))

\* C28: when build_service_list fails, its error chain, from the outermost
\* error to the innermost, names the requested root scenario, then each
\* scenario member on the path that was being expanded, and ends in the
\* NotFound of the offending name.
C28_ErrorChain ==
    (Resolved /\ outcome = "err") =>
        /\ FailedPath[1] = scenario
        /\ Len(error) = Len(FailedPath) + 1
        /\ \A i \in 1..Len(FailedPath) : error[i] = ScenarioDeps(FailedPath[i])
        /\ error[Len(error)] = NotFound(FailedPath[Len(FailedPath)])

\* C28 witness: the root scenario b has the member a, a scenario whose
\* member ab is not found: the chain names b, a and ab and ends in
\* NotFound(ab)
C28_Witness ==
    /\ Resolved
    /\ outcome = "err"
    /\ scenario = <<"b">>
    /\ FailedPath = << <<"b">>, <<"a">>, <<"a", "b">> >>
    /\ error = <<ScenarioDeps(<<"b">>), ScenarioDeps(<<"a">>),
                 ScenarioDeps(<<"a", "b">>), NotFound(<<"a", "b">>)>>

-----------------------------------------------------------------------------
(* The failure of the volumes: what the claims are stated in *)

VolumesFailureEndsRun ==
    (volumes.state = "err" /\ phase # "start") =>
        /\ phase \in {"exited", "aborted"}
        /\ phase = "aborted" => fragment_map.state = "pending"
        /\ error = <<>>
        /\ written = NotWritten

====
